---- MODULE Spec2Model ----
(***************************************************************************)
(* The update lifecycle of bodhi/model/model.py: the Update aggregate      *)
(* (set_request, request_complete, assign_id, comment, unpush, untag,      *)
(* obsolete, get_build_tag, update_bugs, update_cves), the tags its builds  *)
(* carry in the build system, the alias table shared by all updates, and   *)
(* the Bug and CVE rows the updates refer to.                              *)
(*                                                                         *)
(* Python strings that the code parses or orders (aliases) are sequences   *)
(* of one-character strings; tags are sequences of their parts.  An        *)
(* exception is a value of the field exc of the execution context: once    *)
(* it is set, every later statement of the handler is skipped.             *)
(***************************************************************************)
EXTENDS Integers, Sequences, FiniteSets, TLC

VARIABLES
    upd,     \* upd[u]: the row of update u (class Update)
    tags,    \* tags[u][b]: the tags build b of update u carries in koji
    year,    \* time.localtime()[0], also the clock of datetime.utcnow()
    last,    \* the last handler run: its arguments, exception, koji calls, mails
    bugs,    \* bugs[u]: Update.bugs, the bug_id of each Bug in the list, in order
    cves,    \* cves[u]: Update.cves, the cve_id of each CVE in the list, in order
    Bug,     \* Bug[id]: the number of rows of table bugs with bug_id = id
    CVE,     \* CVE[id]: the number of rows of table cves with cve_id = id
    reads,   \* reads[p]: the row a running comment() of caller p has loaded
    bz       \* Bugzilla: bug_status and dependson of each ticket, the tickets it
             \* fails to return, and Bug.parent of the rows of table bugs

\* the rows of Bug and CVE and the lists that refer to them
refs == <<bugs, cves, Bug, CVE>>

vars == <<upd, tags, year, last, bugs, cves, Bug, CVE, reads, bz>>

(***************************************************************************)
(* Bounds                                                                  *)
(***************************************************************************)
MaxComments == 3      \* comments kept per update
NumBuilds == 2        \* builds per update
NumYears == 2         \* years the clock runs through
NumAliasUpdates == 3  \* updates of the alias specification
NumRefUpdates == 2    \* updates of the bug and CVE specification
NumBugs == 3          \* bug numbers in use
MaxScenarioComments == 5  \* comments of the end-to-end scenario

(***************************************************************************)
(* Values                                                                  *)
(***************************************************************************)
None == "None"        \* Python None in a string-valued column
NoAlias == <<>>       \* alias = None
NoDate == <<>>        \* date_pushed = None
FirstYear == 2007     \* the year of the docstring's FEDORA-2007-0001

Years == FirstYear .. (FirstYear + NumYears - 1)
Builds == 1 .. NumBuilds

Statuses == {"pending", "testing", "stable", "obsolete", "unpushed"}
Requests == {"testing", "stable", "obsolete", None}
Types == {"security", "bugfix"}
BugIds == 101 .. (100 + NumBugs)
CveIds == {"CVE-2009-0001"}
KarmaValues == {-1, 0, 1}
Users == {"alice", "bob"}
Thresholds == {<<1, 0>>, <<0, -1>>, <<-1, -1>>}   \* (stable_karma, unstable_karma)

\* Release rows: id_prefix as a Python string, dist_tag as one tag part.
Releases ==
    { [name |-> "F11", dist_tag |-> "dist-f11",
       id_prefix |-> <<"F", "E", "D", "O", "R", "A">>],
      [name |-> "EL-5", dist_tag |-> "dist-5E-epel",
       id_prefix |-> <<"F", "E", "D", "O", "R", "A", "-", "E", "P", "E", "L">>],
      [name |-> "EP-5", dist_tag |-> "dist-5E",
       id_prefix |-> <<"E", "P", "E", "L">>] }

(***************************************************************************)
(* Python strings                                                          *)
(***************************************************************************)
\* The characters in code-point order ('-' < digits < upper-case letters).
Alphabet ==
    <<"-", "0", "1", "2", "3", "4", "5", "6", "7", "8", "9",
      "A", "D", "E", "F", "L", "O", "P", "R">>

DigitChars == <<"0", "1", "2", "3", "4", "5", "6", "7", "8", "9">>

Ord(ch) == CHOOSE i \in 1 .. Len(Alphabet) : Alphabet[i] = ch

IsDigit(ch) == \E i \in 1 .. 10 : DigitChars[i] = ch

DigitVal(ch) == (CHOOSE i \in 1 .. 10 : DigitChars[i] = ch) - 1

\* a < b in the order the database sorts strings by (ORDER BY alias)
RECURSIVE StrLess(_, _)
StrLess(a, b) ==
    IF a = <<>> THEN b # <<>>
    ELSE IF b = <<>> THEN FALSE
    ELSE IF Head(a) = Head(b) THEN StrLess(Tail(a), Tail(b))
    ELSE Ord(Head(a)) < Ord(Head(b))

\* '%s' % n and '%d' % n for n >= 0
RECURSIVE Str(_)
Str(n) == IF n < 10 THEN <<DigitChars[n + 1]>>
          ELSE Str(n \div 10) \o <<DigitChars[(n % 10) + 1]>>

\* '%0.4d' % n: at least four digits, zero-padded on the left
RECURSIVE ZeroPad(_, _)
ZeroPad(s, width) == IF Len(s) >= width THEN s ELSE ZeroPad(<<"0">> \o s, width)

Fmt04d(n) == ZeroPad(Str(n), 4)

\* s.split('-'): the parts between the dashes
RECURSIVE Split(_)
Split(s) ==
    IF \A i \in 1 .. Len(s) : s[i] # "-" THEN <<s>>
    ELSE LET k == CHOOSE i \in 1 .. Len(s) :
                      s[i] = "-" /\ \A j \in 1 .. (i - 1) : s[j] # "-"
         IN  <<SubSeq(s, 1, k - 1)>> \o Split(SubSeq(s, k + 1, Len(s)))

\* int(s) succeeds on a non-empty string of digits
IsInt(s) == s # <<>> /\ \A i \in 1 .. Len(s) : IsDigit(s[i])

RECURSIVE ParseInt(_)
ParseInt(s) == IF Len(s) = 1 THEN DigitVal(s[1])
               ELSE 10 * ParseInt(SubSeq(s, 1, Len(s) - 1)) + DigitVal(s[Len(s)])

(***************************************************************************)
(* The execution context of one handler run                                *)
(***************************************************************************)
\* u: the update row; tags: the tags of its builds; exc/msg: the exception
\* raised, if any; calls: the koji calls that took effect; mails: the mails
\* enqueued; failAt: which koji call of this run fails (0: none).
Ctx(row, buildTags, failAt) ==
    [u |-> row, tags |-> buildTags, exc |-> "none", msg |-> "",
     calls |-> <<>>, mails |-> <<>>, failAt |-> failAt]

Raise(c, exc, msg) == [c EXCEPT !.exc = exc, !.msg = msg]

\* the recipients of mail.send_admin
Admins == {"admin"}

\* mail.send(recipients, template, update) of the Notification Gateway
Mail(c, to, template) ==
    IF c.exc # "none" THEN c
    ELSE [c EXCEPT !.mails = Append(@, <<to, template>>)]

(***************************************************************************)
(* Build-Tag Gateway (koji session)                                        *)
(***************************************************************************)
\* One tag call: it raises when it is the failAt-th call of the run, and
\* otherwise takes effect on the tags of build b.
KojiCall(c, call, b, newTags) ==
    IF c.exc # "none" THEN c
    ELSE IF c.failAt = Len(c.calls) + 1
         THEN Raise(c, "GatewayFailure", call[1])
         ELSE [c EXCEPT !.calls = Append(@, call), !.tags[b] = newTags]

untagBuild(c, tag, b) ==
    KojiCall(c, <<"untagBuild", tag, b>>, b, c.tags[b] \ {tag})

moveBuild(c, fromTag, toTag, b) ==
    KojiCall(c, <<"moveBuild", fromTag, toTag, b>>, b,
             (c.tags[b] \ {fromTag}) \cup {toTag})

(***************************************************************************)
(* Package                                                                 *)
(***************************************************************************)
\* Package.committers of the update's packages (Update.get_maintainers)
get_maintainers(u) == {"alice"}

(***************************************************************************)
(* Update.get_build_tag                                                    *)
(***************************************************************************)
\* get_build_tag that gives an obsolete update the stable tag
GetBuildTagObsoleteBare(u) ==
    LET tag == <<u.release.dist_tag, "-updates">>
    IN  IF u.status = "pending" THEN tag \o <<"-candidate">>
        ELSE IF u.status = "testing" THEN tag \o <<"-testing">>
        ELSE tag

get_build_tag(u) ==
    LET tag == <<u.release.dist_tag, "-updates">>
    IN  IF u.status \in {"pending", "obsolete"} THEN tag \o <<"-candidate">>
        ELSE IF u.status = "testing" THEN tag \o <<"-testing">>
        ELSE tag

\* tag.endswith('-updates-candidate')
EndsWithCandidate(tag) ==
    /\ Len(tag) >= 2
    /\ SubSeq(tag, Len(tag) - 1, Len(tag)) = <<"-updates", "-candidate">>

(***************************************************************************)
(* Update.untag                                                            *)
(***************************************************************************)
\* for build in self.builds[from ..]: koji.untagBuild(tag, build.nvr)
RECURSIVE UntagLoop(_, _, _)
UntagLoop(c, tag, b) ==
    IF b > NumBuilds THEN c ELSE UntagLoop(untagBuild(c, tag, b), tag, b + 1)

untag(c) ==
    IF c.exc # "none" THEN c
    ELSE LET c1 == UntagLoop(c, get_build_tag(c.u), 1)
         IN  IF c1.exc # "none" THEN c1
             ELSE [c1 EXCEPT !.u.pushed = FALSE]

(***************************************************************************)
(* Update.unpush                                                           *)
(***************************************************************************)
\* the loop of unpush moving every build, inherited or not
RECURSIVE UnpushLoopMoveAll(_, _, _, _)
UnpushLoopMoveAll(c, curtag, newtag, b) ==
    IF b > NumBuilds THEN c
    ELSE UnpushLoopMoveAll(moveBuild(c, curtag, newtag, b), curtag, newtag, b + 1)

RECURSIVE UnpushLoop(_, _, _, _)
UnpushLoop(c, curtag, newtag, b) ==
    IF b > NumBuilds THEN c
    ELSE UnpushLoop(IF c.u.inherited[b] THEN untagBuild(c, curtag, b)
                    ELSE moveBuild(c, curtag, newtag, b),
                    curtag, newtag, b + 1)

\* unpush without the early return on the candidate tag
UnpushAlways(c) ==
    IF c.exc # "none" THEN c
    ELSE LET c1 == UnpushLoop(c, get_build_tag(c.u),
                              <<c.u.release.dist_tag, "-updates", "-candidate">>, 1)
         IN  IF c1.exc # "none" THEN c1
             ELSE Mail([c1 EXCEPT !.u.pushed = FALSE, !.u.status = "pending"],
                       Admins, "unpushed")

unpush(c) ==
    IF c.exc # "none" THEN c
    ELSE LET newtag == <<c.u.release.dist_tag, "-updates", "-candidate">>
             curtag == get_build_tag(c.u)
         IN  IF EndsWithCandidate(curtag) THEN c
             ELSE LET c1 == UnpushLoop(c, curtag, newtag, 1)
                  IN  IF c1.exc # "none" THEN c1
                      ELSE Mail([c1 EXCEPT !.u.pushed = FALSE,
                                           !.u.status = "pending"],
                                Admins, "unpushed")

(***************************************************************************)
(* Update.comment and Update.obsolete                                      *)
(***************************************************************************)
Comment(text, karma, author, anonymous) ==
    [text |-> text, karma |-> karma, author |-> author, anonymous |-> anonymous]

\* NewKarma adding every vote as a fresh one
NewKarmaNoSwing(u, karma, author) == u.karma + karma

\* the karma after a comment that counts: a reversed vote swings by two
NewKarma(u, karma, author) ==
    LET mycomments == {u.comments[i].karma : i \in
                          {j \in 1 .. Len(u.comments) : u.comments[j].author = author}}
    IN  IF karma = 1 /\ -1 \in mycomments THEN u.karma + 2
        ELSE IF karma = -1 /\ 1 \in mycomments THEN u.karma - 2
        ELSE u.karma + karma

\* not anonymous and karma != 0 and no comment of this author with this karma
KarmaCounts(u, karma, author, anonymous) ==
    /\ ~anonymous
    /\ karma # 0
    /\ ~\E i \in 1 .. Len(u.comments) :
           u.comments[i].author = author /\ u.comments[i].karma = karma

\* StableKarma firing once the karma has reached or passed the threshold
StableKarmaAtLeast(c) ==
    IF c.u.stable_karma # 0 /\ c.u.karma >= c.u.stable_karma
    THEN Mail(Mail([c EXCEPT !.u.request = "stable", !.u.pushed = FALSE,
                             !.u.date_pushed = NoDate],
                   get_maintainers(c.u), "stablekarma"),
              Admins, "stablekarma")
    ELSE c

\* StableKarma making the update stable itself instead of requesting it
StableKarmaSetsStatus(c) ==
    IF c.u.stable_karma # 0 /\ c.u.stable_karma = c.u.karma
    THEN Mail(Mail([c EXCEPT !.u.status = "stable", !.u.pushed = FALSE,
                             !.u.date_pushed = NoDate],
                   get_maintainers(c.u), "stablekarma"),
              Admins, "stablekarma")
    ELSE c

\* if self.stable_karma != 0 and self.stable_karma == self.karma: ...
StableKarma(c) ==
    IF c.u.stable_karma # 0 /\ c.u.stable_karma = c.u.karma
    THEN Mail(Mail([c EXCEPT !.u.request = "stable", !.u.pushed = FALSE,
                             !.u.date_pushed = NoDate],
                   get_maintainers(c.u), "stablekarma"),
              Admins, "stablekarma")
    ELSE c

\* the people mailed about a new comment
CommentPeople(u) ==
    get_maintainers(u) \cup
    {u.comments[i].author : i \in
        {j \in 1 .. Len(u.comments) :
            ~u.comments[j].anonymous /\ u.comments[j].author # "bodhi"}}

\* AppendComment putting the new comment first
AppendCommentOnTop(c, text, karma, author, anonymous) ==
    IF c.exc # "none" THEN c
    ELSE LET c1 == [c EXCEPT !.u.comments =
                        <<Comment(text, karma, author, anonymous)>> \o @]
         IN  Mail(c1, CommentPeople(c1.u), "comment")

\* comments.append(comment) and the mail to everyone who commented
AppendComment(c, text, karma, author, anonymous) ==
    IF c.exc # "none" THEN c
    ELSE LET c1 == [c EXCEPT !.u.comments =
                        Append(@, Comment(text, karma, author, anonymous))]
         IN  Mail(c1, CommentPeople(c1.u), "comment")

RECURSIVE comment(_, _, _, _, _)
RECURSIVE obsolete(_, _)

\* UnstableKarma without the check of the status
UnstableKarmaAnyStatus(c) ==
    IF c.u.unstable_karma # 0 /\ c.u.karma = c.u.unstable_karma
    THEN Mail(obsolete(c, None), get_maintainers(c.u), "unstable")
    ELSE c

\* if self.status == 'testing' and self.unstable_karma != 0 and ...: obsolete()
UnstableKarma(c) ==
    IF /\ c.u.status = "testing"
       /\ c.u.unstable_karma # 0
       /\ c.u.karma = c.u.unstable_karma
    THEN Mail(obsolete(c, None), get_maintainers(c.u), "unstable")
    ELSE c

comment(c, text, karma, author, anonymous) ==
    IF c.exc # "none" THEN c
    ELSE IF KarmaCounts(c.u, karma, author, anonymous)
    THEN LET c1 == [c EXCEPT !.u.karma = NewKarma(c.u, karma, author)]
         IN  AppendComment(UnstableKarma(StableKarma(c1)),
                           text, karma, author, anonymous)
    ELSE AppendComment(c, text, karma, author, anonymous)

\* obsolete that leaves a pending request in place
ObsoleteKeepsRequest(c, newer) ==
    IF c.exc # "none" THEN c
    ELSE LET c1 == untag(c)
         IN  IF c1.exc # "none" THEN c1
             ELSE comment([c1 EXCEPT !.u.status = "obsolete"],
                          IF newer # None
                          THEN "This update has been obsoleted by " \o newer
                          ELSE "This update has been obsoleted",
                          0, "bodhi", FALSE)

obsolete(c, newer) ==
    IF c.exc # "none" THEN c
    ELSE LET c1 == untag(c)
         IN  IF c1.exc # "none" THEN c1
             ELSE comment([c1 EXCEPT !.u.status = "obsolete", !.u.request = None],
                          IF newer # None
                          THEN "This update has been obsoleted by " \o newer
                          ELSE "This update has been obsoleted",
                          0, "bodhi", FALSE)

(***************************************************************************)
(* Update.assign_id                                                        *)
(***************************************************************************)
NoneStr == <<"N", "o", "n", "e">>    \* the string u'None'

\* Update.query.filter(Update.alias != None).order_by(Update.alias)[-1].alias
LastAlias(aliases) ==
    CHOOSE a \in aliases : \A b \in aliases : b = a \/ StrLess(b, a)

\* u'%s-%s-%0.4d' % (self.release.id_prefix, time.localtime()[0], id)
FormatAlias(prefix, yr, id) == prefix \o <<"-">> \o Str(yr) \o <<"-">> \o Fmt04d(id)

\* assign_id that goes on counting over a change of year
AssignIdNoRollover(c, aliases, yr) ==
    IF c.exc # "none" THEN c
    ELSE IF c.u.alias # NoAlias /\ c.u.alias # NoneStr THEN c
    ELSE IF aliases = {}
    THEN [c EXCEPT !.u.alias = FormatAlias(c.u.release.id_prefix, yr, 1)]
    ELSE LET parts == Split(LastAlias(aliases))
         IN  IF Len(parts) # 3 THEN Raise(c, "ValueError", "unpack")
             ELSE [c EXCEPT !.u.alias =
                      FormatAlias(c.u.release.id_prefix, yr,
                                  ParseInt(parts[3]) + 1)]

\* assign_id without the guard that keeps an alias already assigned
AssignIdAlways(c, aliases, yr) ==
    IF c.exc # "none" THEN c
    ELSE IF aliases = {}
    THEN [c EXCEPT !.u.alias = FormatAlias(c.u.release.id_prefix, yr, 1)]
    ELSE LET parts == Split(LastAlias(aliases))
         IN  IF Len(parts) # 3 THEN Raise(c, "ValueError", "unpack")
             ELSE [c EXCEPT !.u.alias =
                      FormatAlias(c.u.release.id_prefix, yr,
                                  (IF ParseInt(parts[2]) # yr THEN 0
                                   ELSE ParseInt(parts[3])) + 1)]

\* aliases: the aliases of all rows with alias != None; yr: the current year
assign_id(c, aliases, yr) ==
    IF c.exc # "none" THEN c
    ELSE IF c.u.alias # NoAlias /\ c.u.alias # NoneStr THEN c
    ELSE IF aliases = {}
    THEN \* IndexError: id = 1
         [c EXCEPT !.u.alias = FormatAlias(c.u.release.id_prefix, yr, 1)]
    ELSE LET parts == Split(LastAlias(aliases))
         IN  IF Len(parts) # 3
             THEN Raise(c, "ValueError", "unpack")
             ELSE IF ~IsInt(parts[2]) \/ ~IsInt(parts[3])
             THEN Raise(c, "ValueError", "int")
             ELSE LET id == IF ParseInt(parts[2]) # yr THEN 0
                            ELSE ParseInt(parts[3])
                  IN  [c EXCEPT !.u.alias =
                          FormatAlias(c.u.release.id_prefix, yr, id + 1)]

(***************************************************************************)
(* Update.request_complete                                                 *)
(***************************************************************************)
request_complete(c, aliases, yr) ==
    IF c.exc # "none" THEN c
    ELSE LET c1 ==
                 IF c.u.request = "testing"
                 THEN assign_id([c EXCEPT !.u.pushed = TRUE,
                                          !.u.date_pushed = <<yr>>,
                                          !.u.status = "testing"], aliases, yr)
                 ELSE IF c.u.request = "obsolete"
                 THEN [c EXCEPT !.u.pushed = FALSE, !.u.status = "obsolete"]
                 ELSE IF c.u.request = "stable"
                 THEN assign_id([c EXCEPT !.u.pushed = TRUE,
                                          !.u.date_pushed = <<yr>>,
                                          !.u.status = "stable"], aliases, yr)
                 ELSE c
         IN  IF c1.exc # "none" THEN c1
             ELSE [c1 EXCEPT !.u.request = None]

(***************************************************************************)
(* Update.set_request                                                      *)
(***************************************************************************)
\* Versions as (epoch, version, release) triples of numbers
EVRs == {<<0, 1, 1>>, <<0, 1, 2>>, <<0, 2, 1>>, <<1, 1, 1>>}

\* build_evr(koji.getBuild(build.nvr)) of build b
BuildEVR(b) == <<0, 1, 2>>

\* rpm.labelCompare: epoch first, then version, then release
labelCompare(a, b) ==
    IF a[1] # b[1] THEN (IF a[1] < b[1] THEN -1 ELSE 1)
    ELSE IF a[2] # b[2] THEN (IF a[2] < b[2] THEN -1 ELSE 1)
    ELSE IF a[3] # b[3] THEN (IF a[3] < b[3] THEN -1 ELSE 1)
    ELSE 0

\* the path check that also rejects a listed build of the same version
BrokenPathOrEqual(listed) ==
    \E b \in Builds : \E old \in listed[b] : labelCompare(BuildEVR(b), old) <= 0

\* listed[b]: koji.listTagged(dist_tag + '-updates', package, latest=True)
BrokenPath(listed) ==
    \E b \in Builds : \E old \in listed[b] : labelCompare(BuildEVR(b), old) < 0

\* self.request = action ... mail.send_admin(action, self)
SubmitRequest(c, action, user) ==
    Mail(comment([c EXCEPT !.u.request = action, !.u.pushed = FALSE,
                           !.u.date_pushed = NoDate],
                 "This update has been submitted for " \o action,
                 0, user, FALSE),
         Admins, action)

\* RequestError without the check of the pending request
RequestErrorNoPending(u, action, authorized) ==
    IF ~authorized THEN "Unauthorized"
    ELSE IF action \notin {"testing", "stable", "obsolete", "unpush"}
    THEN "Unknown request"
    ELSE IF action = u.status THEN "already"
    ELSE ""

\* The four checks set_request starts with: the message of the InvalidRequest
\* raised, or "" when the request passes them.
RequestError(u, action, authorized) ==
    IF ~authorized THEN "Unauthorized"
    ELSE IF action \notin {"testing", "stable", "obsolete", "unpush"}
    THEN "Unknown request"
    ELSE IF action = u.status THEN "already"
    ELSE IF action = u.request THEN "already submitted"
    ELSE ""

\* set_request recording a request for obsolete like one for testing or stable
SetRequestRecordsObsolete(c, action, authorized, user, pathcheck, listed) ==
    IF RequestError(c.u, action, authorized) # ""
    THEN Raise(c, "InvalidRequest", RequestError(c.u, action, authorized))
    ELSE IF action = "unpush"
    THEN comment(unpush(c), "This update has been unpushed", 0, user, FALSE)
    ELSE IF c.u.type_ = "security" /\ ~c.u.approved
    THEN [c EXCEPT !.u.request = action]
    ELSE IF action = "stable" /\ pathcheck /\ BrokenPath(listed)
    THEN Raise(c, "InvalidRequest", "Broken update path")
    ELSE SubmitRequest(c, action, user)

\* set_request recording the request before it checks the update path
SetRequestRecordsFirst(c, action, authorized, user, pathcheck, listed) ==
    IF RequestError(c.u, action, authorized) # ""
    THEN Raise(c, "InvalidRequest", RequestError(c.u, action, authorized))
    ELSE IF action = "unpush"
    THEN comment(unpush(c), "This update has been unpushed", 0, user, FALSE)
    ELSE IF action = "obsolete" THEN obsolete(c, None)
    ELSE IF c.u.type_ = "security" /\ ~c.u.approved
    THEN [c EXCEPT !.u.request = action]
    ELSE IF action = "stable" /\ pathcheck /\ BrokenPath(listed)
    THEN Raise([c EXCEPT !.u.request = action, !.u.pushed = FALSE,
                         !.u.date_pushed = NoDate],
               "InvalidRequest", "Broken update path")
    ELSE SubmitRequest(c, action, user)

set_request(c, action, authorized, user, pathcheck, listed) ==
    IF RequestError(c.u, action, authorized) # ""
    THEN Raise(c, "InvalidRequest", RequestError(c.u, action, authorized))
    ELSE IF action = "unpush"
    THEN comment(unpush(c), "This update has been unpushed", 0, user, FALSE)
    ELSE IF action = "obsolete" THEN obsolete(c, None)
    ELSE IF c.u.type_ = "security" /\ ~c.u.approved
    THEN [c EXCEPT !.u.request = action]
    ELSE IF action = "stable" /\ pathcheck /\ BrokenPath(listed)
    THEN Raise(c, "InvalidRequest", "Broken update path")
    ELSE SubmitRequest(c, action, user)

(***************************************************************************)
(* State                                                                   *)
(***************************************************************************)
Updates == DOMAIN upd

\* the aliases of the rows with alias != None
Aliases == {upd[v].alias : v \in Updates} \ {NoAlias}

CandidateTag(release) == <<release.dist_tag, "-updates", "-candidate">>

\* Build.inherited of the builds of an update: the last build's tag is inherited
Inherited == [b \in Builds |-> b = NumBuilds]

\* the requests a new row is created with: the column default, or none
InitRequests == {"testing", None}

\* a row as the column defaults create it
NewUpdate(release, type, approved, thresholds, inherited, request) ==
    [status |-> "pending", request |-> request, pushed |-> FALSE,
     karma |-> 0, date_pushed |-> NoDate, alias |-> NoAlias, comments |-> <<>>,
     type_ |-> type, approved |-> approved, release |-> release,
     stable_karma |-> thresholds[1], unstable_karma |-> thresholds[2],
     inherited |-> inherited, close_bugs |-> TRUE]

\* a Bugzilla that is not looked at
NoTickets ==
    [status |-> [id \in BugIds |-> "NEW"], parents |-> {},
     deps |-> [id \in BugIds |-> {}], faults |-> {}]

NoOp == [op |-> "none", u |-> 0, args |-> <<>>, exc |-> "none", msg |-> "",
         calls |-> <<>>, mails |-> <<>>, repeat |-> FALSE]

\* the values an update is created from
NewUpdates ==
    { NewUpdate(r, t, a, k, Inherited, q) :
        r \in Releases, t \in Types, a \in BOOLEAN, k \in Thresholds,
        q \in InitRequests }

InitOf(ids, rows) ==
    /\ upd \in [ids -> rows]
    /\ tags = [u \in ids |-> [b \in Builds |-> {CandidateTag(upd[u].release)}]]
    /\ year = FirstYear
    /\ last = NoOp
    /\ bugs = [u \in ids |-> <<>>]
    /\ cves = [u \in ids |-> <<>>]
    /\ Bug = [id \in BugIds |-> 0]
    /\ CVE = [id \in CveIds |-> 0]
    /\ reads = <<>>
    /\ bz = NoTickets

\* one update, of any release, type and karma thresholds
Init ==
    InitOf({1}, {n \in NewUpdates :
                    /\ n.release.name = "F11"
                    /\ n.approved = (n.type_ # "security")})

(***************************************************************************)
(* Handlers as actions                                                     *)
(***************************************************************************)
\* the context a handler starts from
Start(u, failAt) == Ctx(upd[u], tags[u], failAt)

\* the state the handler leaves, and the record of its run
Record(u, op, args, c) ==
    /\ upd' = [upd EXCEPT ![u] = c.u]
    /\ tags' = [tags EXCEPT ![u] = c.tags]
    /\ last' = [op |-> op, u |-> u, args |-> args, exc |-> c.exc, msg |-> c.msg,
                calls |-> c.calls, mails |-> c.mails,
                repeat |-> /\ op = "set_request"
                           /\ last.op = op /\ last.u = u /\ last.exc = "none"
                           /\ last.args.action = args.action]
    /\ UNCHANGED <<year, refs, reads, bz>>

Finish(u, op, args, c) ==
    /\ Len(c.u.comments) <= MaxComments
    /\ Record(u, op, args, c)

\* the koji calls of one run that may fail (0: none fails)
FailPoints == 0 .. NumBuilds

\* what koji lists per build: nothing, or one build of the package
Listings ==
    {[b \in Builds |-> {}]} \cup
    {[b \in Builds |-> IF b = k THEN {e} ELSE {}] : k \in Builds, e \in EVRs}

\* identity.current.user_name of a request
Requesters == {"alice"}

\* the (karma, author, anonymous) of the comments people submit
CommentInputs ==
    {<<k, a, FALSE>> : k \in KarmaValues, a \in Users} \cup
    {<<1, "alice", TRUE>>}

\* the votes that reach a karma threshold
VoteInputs == {<<1, "alice", FALSE>>, <<-1, "bob", FALSE>>}

Actions == {"testing", "stable", "obsolete", "unpush", "revoke"}

\* the arguments of set_request: (action, authorized, pathcheck, listed)
RequestInputs ==
    {<<a, TRUE, TRUE, [b \in Builds |-> {}]>> : a \in Actions} \cup
    {<<a, FALSE, TRUE, [b \in Builds |-> {}]>> : a \in {"testing", "unpush"}} \cup
    {<<"stable", TRUE, p, l>> : p \in BOOLEAN, l \in Listings}

SetRequest(u, inputs, fails) ==
    \E in \in inputs, user \in Requesters, failAt \in fails :
        Finish(u, "set_request", [action |-> in[1]],
               set_request(Start(u, failAt), in[1], in[2], user, in[3], in[4]))

\* The push of the pending request: the builds get the tag of the request, then
\* request_complete() runs.
push(c) ==
    IF c.u.request \in {"testing", "stable"}
    THEN LET target == get_build_tag([c.u EXCEPT !.status = c.u.request])
         IN  [c EXCEPT !.tags = [b \in Builds |->
                                    (c.tags[b] \ {get_build_tag(c.u)}) \cup {target}]]
    ELSE c

RequestComplete(u) ==
    Finish(u, "request_complete", <<>>,
           request_complete(push(Start(u, 0)), Aliases, year))

RecordComment(u, inputs, fails) ==
    \E in \in inputs, failAt \in fails :
        Finish(u, "comment", Comment("text", in[1], in[2], in[3]),
               comment(Start(u, failAt), "text", in[1], in[2], in[3]))

Unpush(u, fails) ==
    \E failAt \in fails : Finish(u, "unpush", <<>>, unpush(Start(u, failAt)))

Untag(u, fails) ==
    \E failAt \in fails : Finish(u, "untag", <<>>, untag(Start(u, failAt)))

Obsolete(u, fails) ==
    \E newer \in {None, "newer-1.0-1"}, failAt \in fails :
        Finish(u, "obsolete", [newer |-> newer], obsolete(Start(u, failAt), newer))

NewYear ==
    /\ year + 1 \in Years
    /\ year' = year + 1
    /\ last' = NoOp
    /\ UNCHANGED <<upd, tags, refs, reads, bz>>

\* every koji call succeeds
Reliable == {0}

\* The life of one update: every handler, with the votes that reach a threshold.
Next ==
    \/ \E u \in Updates : SetRequest(u, RequestInputs, Reliable)
    \/ \E u \in Updates : RequestComplete(u)
    \/ \E u \in Updates : RecordComment(u, VoteInputs, Reliable)
    \/ \E u \in Updates : Unpush(u, Reliable)
    \/ \E u \in Updates : Untag(u, Reliable)
    \/ \E u \in Updates : Obsolete(u, Reliable)

Spec == Init /\ [][Next]_vars

\* The karma of one update: every kind of comment, in every status, with koji
\* calls that may fail.
StableInputs == {<<"stable", TRUE, FALSE, [b \in Builds |-> {}]>>}

NextKarma ==
    \/ \E u \in Updates : RecordComment(u, CommentInputs, FailPoints)
    \/ \E u \in Updates : SetRequest(u, StableInputs, Reliable)
    \/ \E u \in Updates : RequestComplete(u)
    \/ \E u \in Updates : Obsolete(u, Reliable)

SpecKarma == Init /\ [][NextKarma]_vars

\* The life of one update when any koji call of a run may fail.
PlainInputs ==
    {<<a, TRUE, FALSE, [b \in Builds |-> {}]>> : a \in {"stable", "obsolete", "unpush"}}

FailRows ==
    {n \in NewUpdates :
        /\ n.release.name = "F11" /\ n.type_ = "bugfix" /\ n.approved
        /\ n.request = "testing"}

InitFail == InitOf({1}, FailRows)

NextFail ==
    \/ \E u \in Updates : SetRequest(u, PlainInputs, FailPoints)
    \/ \E u \in Updates : RequestComplete(u)
    \/ \E u \in Updates : RecordComment(u, VoteInputs, FailPoints)
    \/ \E u \in Updates : Unpush(u, FailPoints)
    \/ \E u \in Updates : Untag(u, FailPoints)
    \/ \E u \in Updates : Obsolete(u, FailPoints)

SpecFail == InitFail /\ [][NextFail]_vars

\* The aliases of several updates of several releases, over the years.
\* Updates are created with the default request (testing) and later requested
\* for stable.
AliasRows ==
    {n \in NewUpdates :
        /\ n.type_ = "bugfix" /\ n.approved
        /\ n.stable_karma = 0 /\ n.request = "testing"}

InitAlias == InitOf(1 .. NumAliasUpdates, AliasRows)

NextAlias ==
    \/ \E u \in Updates : SetRequest(u, StableInputs, Reliable)
    \/ \E u \in Updates : RequestComplete(u)
    \/ NewYear

SpecAlias == InitAlias /\ [][NextAlias]_vars

\* get_build_tag() as a call of its own, on rows of every declared status
TagRows == {[n EXCEPT !.status = st] : n \in NewUpdates, st \in Statuses}

InitTag == InitOf({1}, TagRows)

GetBuildTag(u) ==
    /\ last' = [NoOp EXCEPT !.op = "get_build_tag", !.u = u,
                            !.args = [tag |-> get_build_tag(upd[u]),
                                      call |-> IF last.op = "get_build_tag"
                                               THEN 2 ELSE 1]]
    /\ UNCHANGED <<upd, tags, year, refs, reads, bz>>

NextTag == \E u \in Updates : GetBuildTag(u)

SpecTag == InitTag /\ [][NextTag]_vars

\* set_request() with all its arguments on record, on an update of any type,
\* approved or not, before and after its pushes
RecordedRequest(u) ==
    \E in \in RequestInputs, user \in Requesters :
        Finish(u, "set_request",
               [action |-> in[1], authorized |-> in[2], pathcheck |-> in[3],
                listed |-> in[4]],
               set_request(Start(u, 0), in[1], in[2], user, in[3], in[4]))

InitPath == InitOf({1}, {n \in NewUpdates : n.release.name = "F11"})

NextPath ==
    \/ \E u \in Updates : RecordedRequest(u)
    \/ \E u \in Updates : RequestComplete(u)

SpecPath == InitPath /\ [][NextPath]_vars

(***************************************************************************)
(* Update.update_bugs and Update.update_cves                               *)
(***************************************************************************)
Range(seq) == {seq[i] : i \in 1 .. Len(seq)}

\* list.remove at position i
RemoveAt(seq, i) == SubSeq(seq, 1, i - 1) \o SubSeq(seq, i + 1, Len(seq))

\* The rows and lists a call works on: lists[u] is the list of update u, table
\* the number of rows per id.
Refs(lists, table) == [lists |-> lists, table |-> table]

\* len(row.updates): the updates whose list holds the row (the backref)
RefCount(r, id) == Cardinality({v \in DOMAIN r.lists : id \in Range(r.lists[v])})

\* for bug in self.bugs: the iterator is at position i of the list, and goes
\* on to position i + 1 of the list as the body left it
RECURSIVE RemoveBugs(_, _, _, _)
RemoveBugs(r, u, new, i) ==
    IF i > Len(r.lists[u]) THEN r
    ELSE LET bug == r.lists[u][i]
         IN  IF bug \notin Range(new)
             THEN LET r1 == [r EXCEPT !.lists[u] = RemoveAt(@, i)]
                      r2 == IF RefCount(r1, bug) = 0
                            THEN [r1 EXCEPT !.table[bug] = @ - 1]
                            ELSE r1
                  IN  RemoveBugs(r2, u, new, i + 1)
             ELSE RemoveBugs(r, u, new, i + 1)

\* AddBugs that creates a row without looking for one
RECURSIVE AddBugsNoLookup(_, _, _, _)
AddBugsNoLookup(r, u, new, j) ==
    IF j > Len(new) THEN r
    ELSE AddBugsNoLookup([r EXCEPT !.table[new[j]] = @ + 1,
                                   !.lists[u] = Append(@, new[j])],
                         u, new, j + 1)

\* query.filter_by(...).one() finds the row when there is exactly one; else the
\* except branch creates a row.  The row is appended when it is not in the list.
RECURSIVE AddBugs(_, _, _, _)
AddBugs(r, u, new, j) ==
    IF j > Len(new) THEN r
    ELSE LET id == new[j]
             found == r.table[id] = 1
             r1 == IF found THEN r ELSE [r EXCEPT !.table[id] = @ + 1]
             r2 == IF ~found \/ id \notin Range(r1.lists[u])
                   THEN [r1 EXCEPT !.lists[u] = Append(@, id)]
                   ELSE r1
         IN  AddBugs(r2, u, new, j + 1)

update_bugs(r, u, new) == AddBugs(RemoveBugs(r, u, new, 1), u, new, 1)

\* for cve in self.cves: a row is deleted when its id is not wanted and no
\* update refers to it; the list itself is left as it is
RECURSIVE RemoveCves(_, _, _, _)
RemoveCves(r, u, new, i) ==
    IF i > Len(r.lists[u]) THEN r
    ELSE LET cve == r.lists[u][i]
         IN  RemoveCves(IF cve \notin Range(new) /\ RefCount(r, cve) = 0
                        THEN [r EXCEPT !.table[cve] = @ - 1]
                        ELSE r,
                        u, new, i + 1)

RECURSIVE AddCves(_, _, _, _)
AddCves(r, u, new, j) ==
    IF j > Len(new) THEN r
    ELSE LET id == new[j]
             found == r.table[id] = 1
             r1 == IF found THEN r ELSE [r EXCEPT !.table[id] = @ + 1]
             r2 == IF ~found \/ id \notin Range(r1.lists[u])
                   THEN [r1 EXCEPT !.lists[u] = Append(@, id)]
                   ELSE r1
         IN  AddCves(r2, u, new, j + 1)

update_cves(r, u, new) == AddCves(RemoveCves(r, u, new, 1), u, new, 1)

\* the lists of ids a caller passes: each set of ids, in ascending order
BugLists ==
    {l \in UNION {[1 .. n -> BugIds] : n \in 0 .. NumBugs} :
        \A i, j \in 1 .. Len(l) : i < j => l[i] < l[j]}

CveLists == {<<>>, <<"CVE-2009-0001">>}

UpdateBugs(u) ==
    \E new \in BugLists :
        LET r == update_bugs(Refs(bugs, Bug), u, new)
        IN  /\ bugs' = r.lists
            /\ Bug' = r.table
            /\ last' = [NoOp EXCEPT !.op = "update_bugs", !.u = u,
                                    !.args = [bugs |-> new, before |-> bugs[u]]]
            /\ UNCHANGED <<upd, tags, year, cves, CVE, reads, bz>>

UpdateCves(u) ==
    \E new \in CveLists :
        LET r == update_cves(Refs(cves, CVE), u, new)
        IN  /\ cves' = r.lists
            /\ CVE' = r.table
            /\ last' = [NoOp EXCEPT !.op = "update_cves", !.u = u,
                                    !.args = [cves |-> new, before |-> cves[u]]]
            /\ UNCHANGED <<upd, tags, year, bugs, Bug, reads, bz>>

\* Several updates, as created, and the bugs and CVEs they refer to
RefRows ==
    {n \in NewUpdates :
        /\ n.release.name = "F11" /\ n.type_ = "bugfix" /\ n.approved
        /\ n.stable_karma = 0 /\ n.request = "testing"}

InitRefs == InitOf(1 .. NumRefUpdates, RefRows)

NextRefs ==
    \/ \E u \in Updates : UpdateBugs(u)
    \/ \E u \in Updates : UpdateCves(u)

SpecRefs == InitRefs /\ [][NextRefs]_vars

(***************************************************************************)
(* Update.modify_bugs and the Bug methods it calls                         *)
(***************************************************************************)
\* bug_status of a ticket in Bugzilla
TicketStatuses == {"NEW", "ASSIGNED", "CLOSED"}

\* Bugzilla as one run of modify_bugs finds it, and the calls the run makes
Bz(status) == [status |-> status, calls |-> <<>>, exc |-> "none"]

\* Ticket Gateway: addcomment, setstatus and close of a ticket
addcomment(z, id) == [z EXCEPT !.calls = Append(@, <<"addcomment", id>>)]

setstatus(z, id, status) ==
    [z EXCEPT !.status[id] = status, !.calls = Append(@, <<"setstatus", id>>)]

close(z, id) ==
    [z EXCEPT !.status[id] = "CLOSED", !.calls = Append(@, <<"close", id>>)]

\* Bug.add_comment: a failure of getbug or addcomment is logged
add_comment(z, id, faults) == IF id \in faults THEN z ELSE addcomment(z, id)

\* Bug.testing: a failure of getbug or setstatus is logged
testing(z, id, faults) == IF id \in faults THEN z ELSE setstatus(z, id, "ON_QA")

\* Bug.close_bug: a Fault of getbug or close is logged
close_bug(z, id, faults) == IF id \in faults THEN z ELSE close(z, id)

\* the check of the trackers of a parent left out
DepsClosedUnchecked(z, ds, faults) == TRUE

\* depsclosed: every bug the parent depends on can be fetched and is CLOSED
DepsClosed(z, ds, faults) ==
    \A d \in ds : d \notin faults /\ z.status[d] = "CLOSED"

\* the body of 'for bug in self.bugs: if not bug.parent: bug.close_bug(self)'
CloseTracker(z, id, parents, faults) ==
    IF id \in parents THEN z ELSE close_bug(z, id, faults)

\* the body of 'for bug in self.bugs: if bug.parent: ...'
CloseParent(z, id, parents, deps, faults) ==
    IF z.exc # "none" \/ id \notin parents THEN z
    ELSE IF id \in faults THEN [z EXCEPT !.exc = "Fault"]
    ELSE LET z1 == [z EXCEPT !.calls = Append(@, <<"getbug", id>>)]
         IN  IF z1.status[id] = "NEW" THEN z1
             ELSE IF DepsClosed(z1, deps[id], faults)
             THEN close_bug(z1, id, faults)
             ELSE z1

\* the body of one of the loops 'for bug in self.bugs' of modify_bugs
LoopBody(loop, z, id, parents, deps, faults) ==
    CASE loop = "testing" -> testing(z, id, faults)
      [] loop = "add_comment" -> add_comment(z, id, faults)
      [] loop = "trackers" -> CloseTracker(z, id, parents, faults)
      [] loop = "parents" -> CloseParent(z, id, parents, deps, faults)
      [] loop = "close_bug" -> close_bug(z, id, faults)

\* for bug in self.bugs: ...
RECURSIVE ForBugs(_, _, _, _, _, _, _)
ForBugs(loop, z, list, i, parents, deps, faults) ==
    IF i > Len(list) THEN z
    ELSE ForBugs(loop, LoopBody(loop, z, list[i], parents, deps, faults),
                 list, i + 1, parents, deps, faults)

modify_bugs(u, list, z, parents, deps, faults) ==
    IF u.status = "testing"
    THEN ForBugs("testing", z, list, 1, parents, deps, faults)
    ELSE IF u.status = "stable"
    THEN LET z1 == ForBugs("add_comment", z, list, 1, parents, deps, faults)
         IN  IF ~u.close_bugs THEN z1
             ELSE IF u.type_ = "security"
             THEN ForBugs("parents",
                          ForBugs("trackers", z1, list, 1, parents, deps, faults),
                          list, 1, parents, deps, faults)
             ELSE ForBugs("close_bug", z1, list, 1, parents, deps, faults)
    ELSE z

\* the bugs of the update: 101, 102, 103 or the first of them
TicketLists == {[i \in 1 .. n |-> 100 + i] : n \in 0 .. NumBugs}

\* the bugs a parent depends on (Bugzilla's dependson)
DepSets == {{}, {101}, {102}, {102, 103}}

\* the bugs that Bugzilla fails to return
FaultSets == {{}, {102}}

BugRows ==
    {[n EXCEPT !.status = st, !.close_bugs = cb] :
        n \in {m \in NewUpdates : /\ m.release.name = "F11" /\ m.approved
                                  /\ m.stable_karma = 0 /\ m.request = None},
        st \in Statuses, cb \in BOOLEAN}

InitBugs ==
    /\ upd \in [{1} -> BugRows]
    /\ tags = [u \in {1} |-> [b \in Builds |-> {get_build_tag(upd[u])}]]
    /\ year = FirstYear
    /\ last = NoOp
    /\ bugs \in [{1} -> TicketLists]
    /\ cves = [u \in {1} |-> <<>>]
    /\ Bug = [id \in BugIds |-> IF id \in Range(bugs[1]) THEN 1 ELSE 0]
    /\ CVE = [id \in CveIds |-> 0]
    /\ reads = <<>>
    /\ bz \in {[status |-> st, parents |-> ps, deps |-> [id \in BugIds |-> ds],
                faults |-> fs] :
                   st \in [BugIds -> TicketStatuses], ps \in SUBSET BugIds,
                   ds \in DepSets, fs \in FaultSets}

ModifyBugs(u) ==
    LET z == modify_bugs(upd[u], bugs[u], Bz(bz.status), bz.parents, bz.deps,
                         bz.faults)
    IN  /\ bz' = [bz EXCEPT !.status = z.status]
        /\ last' = [NoOp EXCEPT !.op = "modify_bugs", !.u = u, !.exc = z.exc,
                                !.calls = z.calls]
        /\ UNCHANGED <<upd, tags, year, refs, reads>>

NextBugs == \E u \in Updates : ModifyBugs(u)

SpecBugs == InitBugs /\ [][NextBugs]_vars

\* From the new row to the automatic request for stable: the maintainer asks
\* for testing, the push completes, people vote +1.
Voters == {"alice", "bob", "carol"}

\* Package.stable_karma of the scenario
StableKarmaOfPackage == 3

ScenarioRows ==
    {NewUpdate(r, "bugfix", TRUE, <<StableKarmaOfPackage, 0>>, Inherited, q) :
        r \in {x \in Releases : x.name = "F11"}, q \in InitRequests}

InitScenario == InitOf({1}, ScenarioRows)

Within(c) == Len(c.u.comments) <= MaxScenarioComments

RequestTesting(u) ==
    \E user \in Requesters :
        LET c == set_request(Start(u, 0), "testing", TRUE, user, TRUE,
                             [b \in Builds |-> {}])
        IN  Within(c) /\ Record(u, "set_request", [action |-> "testing"], c)

CompleteRequest(u) ==
    LET c == request_complete(push(Start(u, 0)), Aliases, year)
    IN  Within(c) /\ Record(u, "request_complete", <<>>, c)

VoteUp(u) ==
    \E author \in Voters :
        LET c == comment(Start(u, 0), "text", 1, author, FALSE)
        IN  Within(c) /\ Record(u, "comment", Comment("text", 1, author, FALSE), c)

NextScenario ==
    \/ \E u \in Updates : RequestTesting(u)
    \/ \E u \in Updates : CompleteRequest(u)
    \/ \E u \in Updates : VoteUp(u)

SpecScenario == InitScenario /\ [][NextScenario]_vars

\* Two callers of comment() on one update at the same time.  Nothing in
\* comment() locks the row: each caller works on the row as it loaded it and
\* stores the attributes it assigned, and the Comment rows it added.
Votes == {-1, 1}

\* the caller loads the row: self.karma, self.comments, self.status
LoadRow(u, p) ==
    /\ p \notin DOMAIN reads
    /\ \E k \in Votes :
          reads' = reads @@ (p :> [pc |-> "loaded", row |-> upd[u], karma |-> k,
                                   mails |-> <<>>])
    /\ last' = [NoOp EXCEPT !.op = "load", !.u = u]
    /\ UNCHANGED <<upd, tags, year, refs, bz>>

\* the attribute as the caller stores it: what it assigned, else what is there
Stored(was, now, there) == IF now # was THEN now ELSE there

\* the caller runs comment() on the row it loaded and stores the outcome
StoreComment(u, p) ==
    /\ p \in DOMAIN reads
    /\ reads[p].pc = "loaded"
    /\ LET row == reads[p].row
           c == comment(Ctx(row, tags[u], 0), "text", reads[p].karma, p, FALSE)
           added == SubSeq(c.u.comments, Len(row.comments) + 1,
                           Len(c.u.comments))
       IN  /\ upd' = [upd EXCEPT ![u] =
                       [@ EXCEPT
                          !.karma = Stored(row.karma, c.u.karma, @),
                          !.request = Stored(row.request, c.u.request, @),
                          !.pushed = Stored(row.pushed, c.u.pushed, @),
                          !.date_pushed =
                              Stored(row.date_pushed, c.u.date_pushed, @),
                          !.status = Stored(row.status, c.u.status, @),
                          !.comments = @ \o added]]
           /\ tags' = [tags EXCEPT ![u] = c.tags]
           /\ reads' = [reads EXCEPT ![p].pc = "stored", ![p].mails = c.mails]
           /\ last' = [NoOp EXCEPT !.op = "comment", !.u = u,
                                   !.args = Comment("text", reads[p].karma, p, FALSE),
                                   !.calls = c.calls, !.mails = c.mails]
    /\ UNCHANGED <<year, refs, bz>>

RaceRows ==
    {n \in NewUpdates : n.release.name = "F11" /\ n.type_ = "bugfix" /\ n.approved}

InitRace == InitOf({1}, RaceRows)

NextRace ==
    \/ \E u \in Updates, p \in Users : LoadRow(u, p)
    \/ \E u \in Updates, p \in Users : StoreComment(u, p)
    \/ \E u \in Updates : RequestComplete(u)

SpecRace == InitRace /\ [][NextRace]_vars

(***************************************************************************)
(* Claims                                                                  *)
(***************************************************************************)
\* the run recorded in last was an authorized set_request(action) that directly
\* followed a successful set_request(action) on the same update
RepeatedRequest(action) ==
    /\ last.op = "set_request"
    /\ last.repeat
    /\ last.args.action = action
    /\ last.msg # "Unauthorized"

Duplicate == last.exc = "InvalidRequest" /\ last.msg \in {"already", "already submitted"}

\* C1 (as stated): for each of testing, stable, obsolete and unpush, the same
\* request submitted again right after it succeeded fails with InvalidRequest.
C1_RepeatedRequestFails ==
    \A action \in {"testing", "stable", "obsolete", "unpush"} :
        RepeatedRequest(action) => Duplicate

\* C1 (amended): for testing, stable and obsolete the repeated request fails
\* with InvalidRequest as a duplicate; a repeated unpush is accepted again.
C1_RepeatedRequestFailsUnlessUnpush ==
    /\ \A action \in {"testing", "stable", "obsolete"} :
           RepeatedRequest(action) => Duplicate
    /\ RepeatedRequest("unpush") => last.exc = "none"

\* a stable request was accepted, submitted again and rejected as a duplicate
C1_Witness ==
    /\ RepeatedRequest("stable")
    /\ Duplicate
    /\ upd[last.u].request = "stable"

\* C2: a set_request that fails its validation (unauthorized, unknown action,
\* action equal to the status or to the pending request, broken update path)
\* leaves every field of the update and every tag as it was, and has made no
\* koji call and sent no mail.
C2_FailedRequestChangesNothing ==
    [][(last'.op = "set_request" /\ last'.exc = "InvalidRequest")
          => /\ upd' = upd
             /\ tags' = tags
             /\ last'.calls = <<>>
             /\ last'.mails = <<>>]_vars

\* a stable request was rejected for a broken update path
C2_Witness ==
    /\ last.op = "set_request"
    /\ last.exc = "InvalidRequest"
    /\ last.msg = "Broken update path"
    /\ upd[last.u].request # "stable"

\* the last karma other than 0 that author gave in a comment that is not
\* anonymous (0 when there is none)
LatestVote(u, author) ==
    LET votes == {i \in 1 .. Len(u.comments) :
                     /\ u.comments[i].author = author
                     /\ ~u.comments[i].anonymous
                     /\ u.comments[i].karma # 0}
    IN  IF votes = {} THEN 0
        ELSE u.comments[CHOOSE i \in votes : \A j \in votes : j <= i].karma

RECURSIVE SumVotes(_, _)
SumVotes(u, authors) ==
    IF authors = {} THEN 0
    ELSE LET a == CHOOSE x \in authors : TRUE
         IN  LatestVote(u, a) + SumVotes(u, authors \ {a})

\* C3: the karma of an update is the sum, over the authors of its comments that
\* are not anonymous, of the last karma other than 0 each of them gave.
C3_KarmaIsSumOfLatestVotes ==
    \A u \in Updates : upd[u].karma = SumVotes(upd[u], Users \cup {"bodhi"})

\* the comments before the call that carry this author and this karma
Earlier(u, author, karma) ==
    {i \in 1 .. Len(u.comments) :
        u.comments[i].author = author /\ u.comments[i].karma = karma}

CommentReturned == last'.op = "comment" /\ last'.exc = "none"

\* the call changed the karma and the new karma is the stable_karma threshold
HitsStable(old, new) ==
    new.karma # old.karma /\ old.stable_karma # 0 /\ new.karma = old.stable_karma

\* the call changed the karma of an update in testing and the new karma is the
\* unstable_karma threshold
HitsUnstable(old, new) ==
    /\ new.karma # old.karma
    /\ old.status = "testing"
    /\ old.unstable_karma # 0
    /\ new.karma = old.unstable_karma

StableRequested(new) ==
    new.request = "stable" /\ ~new.pushed /\ new.date_pushed = NoDate

C7_RequestCompleteMapsRequest ==
    [][last'.op = "request_complete" =>
        LET old == upd[last'.u]
            new == upd'[last'.u]
        IN  /\ new.request = None
            /\ old.request \in {"testing", "stable"} =>
                  /\ new.status = old.request
                  /\ new.pushed
                  /\ new.date_pushed # NoDate
                  /\ new.alias # NoAlias
                  /\ old.alias # NoAlias => new.alias = old.alias
            /\ old.request = "obsolete" =>
                  new.status = "obsolete" /\ ~new.pushed
            /\ old.request = None =>
                  /\ new.status = old.status
                  /\ new.pushed = old.pushed
                  /\ new.date_pushed = old.date_pushed
                  /\ new.alias = old.alias]_vars

\* C8: the status obsolete is terminal: no operation changes the status of an
\* update that is obsolete.
C8_ObsoleteIsTerminal ==
    [][\A u \in Updates :
          upd[u].status = "obsolete" => upd'[u].status = "obsolete"]_vars

\* C9: tag consistency: after every completed operation each build of an update
\* carries exactly the tag get_build_tag() computes from the update's status,
\* never another tag and never no tag.
C9_TagConsistency ==
    last.exc = "none" =>
        \A u \in Updates, b \in Builds : tags[u][b] = {get_build_tag(upd[u])}

\* C10: alias uniqueness: no two updates hold the same non-null alias.
C10_AliasUnique ==
    \A u, v \in Updates :
        u # v /\ upd[u].alias # NoAlias => upd[u].alias # upd[v].alias

\* C11: an alias, once assigned, never changes: no operation modifies or clears
\* it, so an update pushed to testing and then to stable keeps the alias of the
\* first push; and an alias is only ever assigned by a request_complete() of that
\* update whose request was testing or stable.
C11_AliasNeverChanges ==
    [][\A u \in Updates :
          /\ upd[u].alias # NoAlias => upd'[u].alias = upd[u].alias
          /\ (upd[u].alias = NoAlias /\ upd'[u].alias # NoAlias)
                => /\ last'.op = "request_complete"
                   /\ last'.u = u
                   /\ upd[u].request \in {"testing", "stable"}]_vars

\* an update that has its alias was pushed again, to stable, and has comments
C11_Witness ==
    /\ last.op = "request_complete" /\ last.exc = "none"
    /\ upd[last.u].status = "stable"
    /\ upd[last.u].alias = FormatAlias(upd[last.u].release.id_prefix, FirstYear, 1)
    /\ \E i \in 1 .. Len(upd[last.u].comments) :
           upd[last.u].comments[i].text = "This update has been submitted for testing"

\* the year and the sequence number an alias ends with
AliasYear(alias) == LET parts == Split(alias) IN ParseInt(parts[Len(parts) - 1])

AliasSeq(alias) == LET parts == Split(alias) IN ParseInt(parts[Len(parts)])

\* the sequence number of the next alias: 1 when there is no alias yet or the
\* last alias in alias order is of another year, else one more than its number
NextSeq(aliases, yr) ==
    IF aliases = {} THEN 1
    ELSE IF AliasYear(LastAlias(aliases)) # yr THEN 1
    ELSE AliasSeq(LastAlias(aliases)) + 1

\* alias reads prefix-yr-NNNN, NNNN being seq in four digits
IsAliasOf(alias, prefix, yr, seq) ==
    LET n == Len(alias)
    IN  /\ n > 4
        /\ SubSeq(alias, 1, n - 4) = prefix \o <<"-">> \o Str(yr) \o <<"-">>
        /\ \A i \in (n - 3) .. n : IsDigit(alias[i])
        /\ ParseInt(SubSeq(alias, n - 3, n)) = seq

TagOfStatus(dist_tag, status) ==
    CASE status \in {"pending", "obsolete"} -> <<dist_tag, "-updates", "-candidate">>
      [] status = "testing" -> <<dist_tag, "-updates", "-testing">>
      [] status = "stable" -> <<dist_tag, "-updates">>

\* C13: get_build_tag() depends only on the status and the dist_tag of the
\* release: the candidate tag for pending and obsolete, the testing tag for
\* testing, the bare updates tag for stable; a second call returns the same tag,
\* and no call changes any state.
C13_BuildTagOfStatus ==
    [][last'.op = "get_build_tag" =>
          LET row == upd[last'.u]
              tag == last'.args.tag
          IN  /\ upd' = upd /\ tags' = tags
              /\ row.status \in {"pending", "testing", "stable", "obsolete"}
                    => tag = TagOfStatus(row.release.dist_tag, row.status)
              /\ \A other \in TagRows :
                    (other.status = row.status
                       /\ other.release.dist_tag = row.release.dist_tag)
                    => get_build_tag(other) = tag
              /\ last.op = "get_build_tag" => tag = last.args.tag]_vars

\* the tag of a stable update was computed twice: both times the bare tag
C13_Witness ==
    /\ last.op = "get_build_tag"
    /\ last.args.call = 2
    /\ upd[last.u].status = "stable"
    /\ last.args.tag = <<upd[last.u].release.dist_tag, "-updates">>

\* C14: unpush() on an update whose status is pending or obsolete, so that its
\* computed tag is the candidate tag, does nothing: no koji call, no mail, and
\* the update and the tags of its builds are as before.
C14_UnpushOnCandidateIsNoOp ==
    [][(last'.op = "unpush" /\ upd[last'.u].status \in {"pending", "obsolete"})
          => /\ last'.exc = "none"
             /\ last'.calls = <<>>
             /\ last'.mails = <<>>
             /\ upd' = upd
             /\ tags' = tags]_vars

\* unpush() ran on an obsolete update that still has a request
C14_Witness ==
    /\ last.op = "unpush" /\ last.exc = "none"
    /\ upd[last.u].status = "obsolete"
    /\ upd[last.u].request = "stable"
    /\ last.calls = <<>> /\ last.mails = <<>>

\* the step is a set_request('unpush') that returned
UnpushRequested ==
    /\ last'.op = "set_request" /\ last'.args.action = "unpush"
    /\ last'.exc = "none"

\* exactly one comment, the unpush note, was appended and the request is as before
UnpushNoted(old, new) ==
    /\ Len(new.comments) = Len(old.comments) + 1
    /\ SubSeq(new.comments, 1, Len(old.comments)) = old.comments
    /\ new.comments[Len(new.comments)].text = "This update has been unpushed"
    /\ new.request = old.request

\* status pending, not pushed; for every inherited build the removal of its tag
\* was called, and for every other build the move from its tag to the
\* candidate tag
Unpushed(u, old, new) ==
    /\ new.status = "pending"
    /\ ~new.pushed
    /\ last'.calls = [b \in Builds |->
                         IF old.inherited[b]
                         THEN <<"untagBuild", get_build_tag(old), b>>
                         ELSE <<"moveBuild", get_build_tag(old),
                                CandidateTag(old.release), b>>]

\* C15 (as stated): every set_request('unpush') that succeeds, whatever the
\* status was, ends with status pending and not pushed, the tag of every
\* inherited build removed and every other build moved to the candidate tag,
\* one comment appended and the request as it was.
C15_UnpushRequestFromAnyStatus ==
    [][UnpushRequested
          => LET u == last'.u
             IN  Unpushed(u, upd[u], upd'[u]) /\ UnpushNoted(upd[u], upd'[u])]_vars

\* C15 (amended): that is so when the status was testing or stable. When it
\* was pending or obsolete the call only appends the comment: the status and
\* the pushed flag stay as they were and no koji call is made.
C15_UnpushRequestFromPushedStatus ==
    [][UnpushRequested
          => LET u == last'.u
                 old == upd[u]
                 new == upd'[u]
             IN  /\ UnpushNoted(old, new)
                 /\ old.status \in {"testing", "stable"} => Unpushed(u, old, new)
                 /\ old.status \in {"pending", "obsolete"}
                       => /\ new.status = old.status
                          /\ new.pushed = old.pushed
                          /\ last'.calls = <<>>]_vars

\* a stable update was unpushed by request: it is pending, the stable tag of
\* its inherited build was removed and its other build moved to the candidate tag
C15_Witness ==
    /\ last.op = "set_request" /\ last.args.action = "unpush"
    /\ last.exc = "none"
    /\ upd[last.u].status = "pending"
    /\ Len(last.calls) = NumBuilds
    /\ \A b \in Builds :
          /\ last.calls[b][2] = <<upd[last.u].release.dist_tag, "-updates">>
          /\ last.calls[b][1] = IF upd[last.u].inherited[b] THEN "untagBuild"
                                ELSE "moveBuild"

\* the step is an obsolete(newer), or a set_request('obsolete'), that returned
Obsoleted ==
    /\ last'.exc = "none"
    /\ \/ last'.op = "obsolete"
       \/ last'.op = "set_request" /\ last'.args.action = "obsolete"

\* C16: obsolete(newer) and a set_request('obsolete') that succeeds, on a
\* pending, testing or stable update: the removal of the tag computed from the
\* status before the call is called for every build; afterwards the status is
\* obsolete, there is no request and the update is not pushed; one comment is
\* appended, which names the newer update when one is given.
C16_ObsoleteUntagsAndClearsRequest ==
    [][(Obsoleted /\ upd[last'.u].status \in {"pending", "testing", "stable"})
          => LET old == upd[last'.u]
                 new == upd'[last'.u]
                 newer == IF last'.op = "obsolete" THEN last'.args.newer ELSE None
             IN  /\ last'.calls =
                        [b \in Builds |-> <<"untagBuild", get_build_tag(old), b>>]
                 /\ new.status = "obsolete"
                 /\ new.request = None
                 /\ ~new.pushed
                 /\ Len(new.comments) = Len(old.comments) + 1
                 /\ SubSeq(new.comments, 1, Len(old.comments)) = old.comments
                 /\ new.comments[Len(new.comments)].text =
                        IF newer = None THEN "This update has been obsoleted"
                        ELSE "This update has been obsoleted by " \o newer]_vars

\* a testing update with a stable request was obsoleted by a newer update: the
\* testing tag was removed from its builds and the request is gone
C16_Witness ==
    /\ last.op = "obsolete" /\ last.exc = "none"
    /\ last.args.newer # None
    /\ Len(last.calls) = NumBuilds
    /\ last.calls[1][2] = <<upd[last.u].release.dist_tag, "-updates", "-testing">>
    /\ upd[last.u].status = "obsolete"
    /\ upd[last.u].request = None
    /\ \E i \in 1 .. Len(upd[last.u].comments) :
           upd[last.u].comments[i].text = "This update has been submitted for stable"

\* no id twice in the list
NoRepeat(seq) == \A i, j \in 1 .. Len(seq) : seq[i] = seq[j] => i = j

\* C17: after update_bugs(bugs) the bugs of the update are exactly the given
\* ones, whatever the list was before and however many bugs are removed in the
\* call; a bug that was missing is attached, to the row of that number when
\* there is one and to a new row otherwise.
C17_BugsAreTheGivenOnes ==
    [][last'.op = "update_bugs" =>
          LET u == last'.u
              new == Range(last'.args.bugs)
          IN  /\ Range(bugs'[u]) = new
              /\ NoRepeat(bugs'[u])
              /\ \A id \in new : Bug'[id] = 1]_vars

\* C18: after update_cves(cves) the CVEs of the update are exactly the given
\* ones: a CVE that is not among them is detached, and deleted when no other
\* update refers to it, and each given one is attached once.
C18_CvesAreTheGivenOnes ==
    [][last'.op = "update_cves" =>
          LET u == last'.u
              new == Range(last'.args.cves)
          IN  /\ Range(cves'[u]) = new
              /\ NoRepeat(cves'[u])
              /\ \A id \in new : CVE'[id] = 1
              /\ \A id \in Range(cves[u]) \ new :
                    (\A v \in Updates : id \notin Range(cves'[v])) => CVE'[id] = 0]_vars

\* at most one row per id, and every row is in the list of some update
Collected(lists, table) ==
    \A id \in DOMAIN table :
        /\ table[id] <= 1
        /\ table[id] = 1 => \E u \in DOMAIN lists : id \in Range(lists[u])

\* a row another update refers to is still there after the call
SharedKept(lists, table, tableAfter) ==
    \A id \in DOMAIN table :
        (table[id] = 1 /\ \E v \in DOMAIN lists \ {last'.u} : id \in Range(lists[v]))
            => tableAfter[id] = 1

\* C19: after any calls of update_bugs and update_cves on any updates, every
\* Bug row and every CVE row is referred to by some update, there is at most
\* one row per bug number and per CVE id, and a row that another update refers
\* to is not deleted when one update drops it.
C19_OrphansCollected ==
    [][/\ Collected(bugs', Bug') /\ Collected(cves', CVE')
       /\ SharedKept(bugs, Bug, Bug') /\ SharedKept(cves, CVE, CVE')]_vars

\* an update dropped two bugs in one call: the one it shared with another update
\* still has its row, the other one has none
C19_Witness ==
    /\ last.op = "update_bugs"
    /\ {101, 103} \subseteq Range(last.args.before)
    /\ last.args.bugs = <<>>
    /\ \E v \in Updates \ {last.u} : 101 \in Range(bugs[v]) /\ 103 \notin Range(bugs[v])
    /\ Bug[101] = 1
    /\ Bug[103] = 0

\* (epoch, version, release) a is strictly newer than b
Newer(a, b) ==
    \/ a[1] > b[1]
    \/ a[1] = b[1] /\ a[2] > b[2]
    \/ a[1] = b[1] /\ a[2] = b[2] /\ a[3] > b[3]

\* the run on record was rejected for a broken update path
BrokenUpdatePath ==
    last'.exc = "InvalidRequest" /\ last'.msg = "Broken update path"

\* C20: an authorized set_request('stable') on an update that is not stable, has
\* no stable request and is not held for the security team is rejected for a
\* broken update path exactly when the path check is on and, for some build,
\* a listed build of the package is strictly newer than it; an equal or older
\* listed build does not block, nor does anything with the check off.  The
\* rejected call leaves the update as it was; no other call is rejected so.
C20_BrokenUpdatePath ==
    [][last'.op = "set_request" =>
          LET old == upd[last'.u]
              in == last'.args
          IN  /\ BrokenUpdatePath <=>
                    /\ in.action = "stable" /\ in.authorized
                    /\ old.status # "stable" /\ old.request # "stable"
                    /\ ~(old.type_ = "security" /\ ~old.approved)
                    /\ in.pathcheck
                    /\ \E b \in Builds : \E e \in in.listed[b] : Newer(e, BuildEVR(b))
              /\ BrokenUpdatePath => upd' = upd /\ last'.mails = <<>>]_vars

\* a testing update was requested for stable while a build of a higher epoch,
\* though of a lower version, is listed: rejected, and still no stable request
C20_Witness ==
    /\ last.op = "set_request"
    /\ last.exc = "InvalidRequest" /\ last.msg = "Broken update path"
    /\ \E b \in Builds : <<1, 1, 1>> \in last.args.listed[b]
    /\ upd[last.u].status = "testing"
    /\ upd[last.u].request = None

\* seq a is the beginning of seq b
IsPrefix(a, b) == Len(a) <= Len(b) /\ SubSeq(b, 1, Len(a)) = a

\* C21: every comment() that returns has appended its comment, with the given
\* text, karma, author and anonymous flag, whether or not the karma changed or
\* a threshold was reached; and no operation removes, reorders or alters a
\* comment: the comments before an operation are the beginning of those after.
C21_CommentsAppendOnly ==
    [][/\ \A u \in Updates : IsPrefix(upd[u].comments, upd'[u].comments)
       /\ (last'.op = "comment" /\ last'.exc = "none")
             => LET old == upd[last'.u].comments
                    new == upd'[last'.u].comments
                IN  /\ Len(new) > Len(old)
                    /\ new[Len(new)] = last'.args]_vars

\* a vote that obsoleted the update is on record after the note of the
\* obsoletion, behind the comments that were there
C21_Witness ==
    /\ last.op = "comment" /\ last.exc = "none"
    /\ LET cs == upd[last.u].comments
       IN  /\ Len(cs) = 3
           /\ cs[3] = last.args
           /\ cs[2].text = "This update has been obsoleted"
           /\ cs[1].author # "bodhi"


\* the mails of template t that caller p's comment() sent
Sent(p, t) == {i \in 1 .. Len(reads[p].mails) : reads[p].mails[i][2] = t}

\* C22: when comment() calls of two different authors on one update overlap,
\* the karma after both is the karma before plus both votes, and the automatic
\* request for stable, like the automatic obsoletion, happens in at most one
\* of the two calls.
C22_ConcurrentCommentsSerialized ==
    (DOMAIN reads = Users /\ \A p \in Users : reads[p].pc = "stored")
        => /\ upd[1].karma = reads["alice"].karma + reads["bob"].karma
           /\ ~(Sent("alice", "stablekarma") # {} /\ Sent("bob", "stablekarma") # {})
           /\ ~(Sent("alice", "unstable") # {} /\ Sent("bob", "unstable") # {})


\* the row is as it was created: pending, never pushed, no comment, no alias
AsCreated(u) ==
    /\ u.status = "pending" /\ ~u.pushed /\ u.alias = NoAlias
    /\ u.comments = <<>> /\ u.karma = 0

Commented(u, author) ==
    \E i \in 1 .. Len(u.comments) :
        u.comments[i].author = author /\ u.comments[i].karma # 0

\* C23: on a new update of an authorized maintainer the request for testing
\* succeeds and is recorded; the completion of that request makes the update
\* testing and pushed with no request and an alias PREFIX-year-NNNN; then, the
\* package's stable_karma being 3, the first +1 of each author adds one to the
\* karma, and the request is stable exactly when the karma reaches 3, the
\* status staying testing.
C23_EndToEnd ==
    [][LET old == upd[last'.u]
           new == upd'[last'.u]
       IN  /\ (last'.op = "set_request" /\ AsCreated(old))
                 => /\ last'.exc = "none"
                    /\ new.request = "testing"
           /\ (last'.op = "request_complete" /\ old.status = "pending"
                                             /\ old.request = "testing")
                 => /\ new.status = "testing" /\ new.pushed /\ new.request = None
                    /\ IsAliasOf(new.alias, new.release.id_prefix, year, 1)
           /\ (/\ last'.op = "comment"
               /\ old.status = "testing" /\ old.request = None
               /\ ~Commented(old, last'.args.author))
                 => /\ new.karma = old.karma + 1
                    /\ new.status = "testing"
                    /\ new.request = IF new.karma = StableKarmaOfPackage
                                     THEN "stable" ELSE None]_vars

\* the scenario run to its end from a row created with no request
C23_ScenarioEnd ==
    /\ upd[1].status = "testing" /\ upd[1].request = "stable" /\ upd[1].karma = 3
    /\ Len(upd[1].comments) = 4


\* the run on record submitted the request the normal way
NormalPath(old, new, action, mails) ==
    /\ new.request = action /\ ~new.pushed /\ new.date_pushed = NoDate
    /\ Len(new.comments) = Len(old.comments) + 1
    /\ \E i \in 1 .. Len(mails) : mails[i] = <<Admins, action>>

\* C24: a successful request for testing or stable only records the request,
\* leaving pushed, date_pushed, the comments and the mails alone, when it is
\* a request for stable with the path check on an unapproved security update;
\* every other successful request for testing or stable, on any update, sets
\* the request, clears pushed and date_pushed, adds a comment and mails the
\* admins.
C24_DeferralOnlyForCheckedStable ==
    [][(/\ last'.op = "set_request" /\ last'.exc = "none"
        /\ last'.args.action \in {"testing", "stable"})
          => LET old == upd[last'.u]
                 new == upd'[last'.u]
             IN  IF /\ old.type_ = "security" /\ ~old.approved
                    /\ last'.args.action = "stable" /\ last'.args.pathcheck
                 THEN /\ new = [old EXCEPT !.request = "stable"]
                      /\ last'.mails = <<>>
                 ELSE NormalPath(old, new, last'.args.action, last'.mails)]_vars


\* C25: a run of unpush, untag, obsolete, set_request or comment in which a
\* koji call fails ends with that failure, and leaves the status, the request
\* and pushed of the update as they were before the run.
C25_GatewayFailureKeepsState ==
    [][last'.exc = "GatewayFailure"
          => LET old == upd[last'.u]
                 new == upd'[last'.u]
             IN  /\ new.status = old.status
                 /\ new.request = old.request
                 /\ new.pushed = old.pushed]_vars


\* the positions of the call in the calls of the run on record
CallsOf(calls, call) == {i \in 1 .. Len(calls) : calls[i] = call}

\* ticket d was CLOSED when call k of the run was made
ClosedAt(calls, k, d) ==
    \/ bz.status[d] = "CLOSED"
    \/ \E j \in CallsOf(calls, <<"close", d>>) : j < k

\* C26: modify_bugs on a stable security update with close_bugs closes every
\* ticket that is not a parent (and that Bugzilla returns) before it fetches
\* any parent, and closes a parent only when the parent is not NEW and every
\* ticket it depends on is CLOSED by then; on a stable update of another type
\* it closes every ticket; without close_bugs, or in a status other than
\* stable, it closes none; and it never changes the update.
C26_BugsClosedInOrder ==
    [][last'.op = "modify_bugs"
          => LET u == upd[last'.u]
                 list == Range(bugs[last'.u])
                 calls == last'.calls
                 trackers == (list \ bz.parents) \ bz.faults
             IN  /\ upd' = upd
                 /\ \A id \in BugIds :
                        CallsOf(calls, <<"close", id>>) # {} => id \in list
                 /\ (u.status = "stable" /\ u.close_bugs /\ u.type_ = "security")
                       => /\ \A t \in trackers : CallsOf(calls, <<"close", t>>) # {}
                          /\ \A t \in trackers, p \in bz.parents :
                                \A i \in CallsOf(calls, <<"close", t>>),
                                   j \in CallsOf(calls, <<"getbug", p>>) : i < j
                          /\ \A p \in bz.parents :
                                \A k \in CallsOf(calls, <<"close", p>>) :
                                    /\ bz.status[p] # "NEW"
                                    /\ \A d \in bz.deps[p] : ClosedAt(calls, k, d)
                 /\ (u.status = "stable" /\ u.close_bugs /\ u.type_ # "security")
                       => \A t \in list \ bz.faults :
                              CallsOf(calls, <<"close", t>>) # {}
                 /\ (~u.close_bugs \/ u.status # "stable")
                       => \A id \in BugIds : CallsOf(calls, <<"close", id>>) = {}]_vars

\* a parent closed after the tracker it depends on was closed in the same run
C26_Witness ==
    /\ last.op = "modify_bugs" /\ last.exc = "none"
    /\ upd[1].status = "stable" /\ upd[1].close_bugs /\ upd[1].type_ = "security"
    /\ bz.parents = {101} /\ bz.deps[101] = {102}
    /\ \E i \in CallsOf(last.calls, <<"close", 102>>),
          j \in CallsOf(last.calls, <<"getbug", 101>>),
          k \in CallsOf(last.calls, <<"close", 101>>) : i < j /\ j < k


\* C27: the request of an update is never the status it already has: no update
\* is stable with request stable, or testing with request testing.
C27_RequestDiffersFromStatus ==
    \A u \in Updates : upd[u].request # None => upd[u].request # upd[u].status


\* C28: an update that is pushed is testing or stable, has an alias and a push
\* date, and has no request.
C28_PushedIsSettled ==
    \A u \in Updates :
        upd[u].pushed
            => /\ upd[u].status \in {"testing", "stable"}
               /\ upd[u].alias # NoAlias
               /\ upd[u].date_pushed # NoDate
               /\ upd[u].request = None

\* C28, second part: a run that takes the update out of testing or stable, or
\* that records a new request, leaves it not pushed.
C28_LeavingClearsPushed ==
    [][\A u \in Updates :
          (\/ /\ upd[u].status \in {"testing", "stable"}
              /\ upd'[u].status \notin {"testing", "stable"}
           \/ /\ upd'[u].request # upd[u].request
              /\ upd'[u].request # None)
             => ~upd'[u].pushed]_vars


\* C29: the status of an update becomes testing, or stable, only in a run of
\* request_complete that found the request holding that value.
C29_StatusOnlyByCompletion ==
    [][\A u \in Updates :
          (upd'[u].status # upd[u].status /\ upd'[u].status \in {"testing", "stable"})
             => /\ last'.op = "request_complete" /\ last'.u = u
                /\ upd[u].request = upd'[u].status]_vars

C29_Witness ==
    /\ last.op = "request_complete" /\ last.exc = "none"
    /\ upd[last.u].status = "stable" /\ upd[last.u].request = None
    /\ Len(upd[last.u].comments) >= 2


\* the authors who gave a karma other than 0 in a comment that is not anonymous
KarmaAuthors(u) ==
    {u.comments[i].author : i \in
        {j \in 1 .. Len(u.comments) :
            ~u.comments[j].anonymous /\ u.comments[j].karma # 0}}

Abs(n) == IF n < 0 THEN -n ELSE n

\* C30: the karma of an update, taken without its sign, is never more than the
\* number of distinct authors who gave it a non-zero karma in a comment that
\* is not anonymous.
C30_KarmaBoundedByAuthors ==
    \A u \in Updates : Abs(upd[u].karma) <= Cardinality(KarmaAuthors(upd[u]))


\* C31: no update ever has the request obsolete or the status unpushed, so
\* request_complete never runs on a request for obsolete; a successful
\* set_request('obsolete') leaves the update obsolete with no request, and a
\* run that unpushes a testing or stable update leaves it pending.
C31_NoObsoleteRequestNoUnpushedStatus ==
    [][\A u \in Updates :
          /\ upd[u].request # "obsolete" /\ upd'[u].request # "obsolete"
          /\ upd[u].status # "unpushed" /\ upd'[u].status # "unpushed"
          /\ (/\ last'.op = "set_request" /\ last'.u = u /\ last'.exc = "none"
              /\ last'.args.action = "obsolete")
                => upd'[u].status = "obsolete" /\ upd'[u].request = None
          /\ (/\ last'.u = u /\ last'.exc = "none"
              /\ \/ last'.op = "unpush"
                 \/ last'.op = "set_request" /\ last'.args.action = "unpush"
              /\ upd[u].status \in {"testing", "stable"})
                => upd'[u].status = "pending"]_vars

\* an update that was unpushed from testing and then obsoleted on request
C31_Witness ==
    /\ last.op = "set_request" /\ last.exc = "none"
    /\ last.args.action = "obsolete"
    /\ LET cs == upd[last.u].comments
       IN  /\ Len(cs) = 2
           /\ cs[1].text = "This update has been unpushed"
           /\ cs[2].text = "This update has been obsoleted"
    /\ upd[last.u].alias # NoAlias

=============================================================================
